---------------------------- MODULE Spec2Model ----------------------------
(***************************************************************************)
(* Model of lambda-s3-restructure (src/src/main.rs): one invocation of     *)
(* function_handler on one payload, with the configuration read from the   *)
(* environment.                                                            *)
(*                                                                         *)
(* Strings that the program takes apart (object keys, rendered keys,       *)
(* regex prefixes, capture values) are sequences of one-character strings. *)
(* Option<T> is a record [some |-> BOOLEAN, v |-> T].                      *)
(* A JSON document is described by the fields the deserializers look at.   *)
(***************************************************************************)
EXTENDS Integers, Sequences, FiniteSets, TLC

\* ------------------------------------------------------------------ bounds
\* most elements of the top-level "Records" array of a payload
MaxMessages == 2
\* most S3 notification records in a whole payload (inline or in bodies)
MaxRecords == 2

\* ------------------------------------------------------------ small helpers
NoStr == [some |-> FALSE, v |-> <<>>]
SomeStr(s) == [some |-> TRUE, v |-> s]

SeqsUpTo(S, n) == UNION {[1..k -> S] : k \in 0..n}

RECURSIVE StartsWith(_, _)
StartsWith(s, prefix) ==
    IF prefix = <<>> THEN TRUE
    ELSE IF s = <<>> THEN FALSE
    ELSE Head(s) = Head(prefix) /\ StartsWith(Tail(s), Tail(prefix))

Drop(s, n) == SubSeq(s, n + 1, Len(s))

\* HashMap<String, String>::insert
Insert(m, k, v) == [x \in (DOMAIN m) \cup {k} |-> IF x = k THEN v ELSE m[x]]

EmptyMap == [x \in {} |-> <<>>]


\* ------------------------------------------------------------ pattern router
\* A route as routefinder holds it after Router::add: the leading "/" of the
\* pattern is dropped and the rest is a list of segments.
Exact(s) == [t |-> "Exact", s |-> s, name |-> ""]
Param(n) == [t |-> "Param", s |-> <<>>, name |-> n]
Slash == [t |-> "Slash", s |-> <<>>, name |-> ""]

RECURSIVE TrimStart(_)
TrimStart(p) == IF p # <<>> /\ Head(p) = "/" THEN TrimStart(Tail(p)) ELSE p

RECURSIVE TrimEnd(_)
TrimEnd(p) ==
    IF p # <<>> /\ p[Len(p)] = "/" THEN TrimEnd(SubSeq(p, 1, Len(p) - 1)) ELSE p

\* p.split('/').next(): the characters before the first "/"
RECURSIVE UpToSlash(_)
UpToSlash(p) ==
    IF p = <<>> \/ Head(p) = "/" THEN <<>> ELSE <<Head(p)>> \o UpToSlash(Tail(p))

NoCaptures == [ok |-> FALSE, caps |-> <<>>]

\* Walk of one route over the rest of the path; the result is the list of
\* <<name, value>> captures in route order, or NoCaptures.
RECURSIVE RouteCaptures(_, _)
RouteCaptures(segs, p) ==
    IF segs = <<>>
    THEN IF p = <<>> \/ p = <<"/">> THEN [ok |-> TRUE, caps |-> <<>>] ELSE NoCaptures
    ELSE LET seg == Head(segs)
             rest == Tail(segs)
         IN  CASE seg.t = "Exact" ->
                    IF StartsWith(p, seg.s)
                    THEN RouteCaptures(rest, Drop(p, Len(seg.s)))
                    ELSE NoCaptures
               [] seg.t = "Param" ->
                    IF p = <<>> THEN NoCaptures
                    ELSE LET capture == UpToSlash(p)
                             r == RouteCaptures(rest, Drop(p, Len(capture)))
                         IN  IF r.ok
                             THEN [ok |-> TRUE,
                                   caps |-> <<(<<seg.name, capture>>)>> \o r.caps]
                             ELSE NoCaptures
               [] seg.t = "Slash" ->
                    IF p # <<>> /\ Head(p) = "/" /\ rest # <<>>
                    THEN RouteCaptures(rest, Tail(p))
                    ELSE IF p = <<>> /\ rest = <<>>
                    THEN RouteCaptures(rest, p)
                    ELSE NoCaptures

\* Router::matches for a router holding the single route of INPUT_PATTERN
RouterMatches(route, source_key) ==
    RouteCaptures(route, TrimEnd(TrimStart(source_key)))

RECURSIVE InsertAll(_, _)
InsertAll(data, caps) ==
    IF caps = <<>> THEN data
    ELSE InsertAll(Insert(data, Head(caps)[1], Head(caps)[2]), Tail(caps))

NoParams == [some |-> FALSE, v |-> EmptyMap]

\* faulty variant: no early return on matches.is_empty()
captured_parameters_always(router, source_key) ==
    [some |-> TRUE, v |-> InsertAll(EmptyMap, RouterMatches(router, source_key).caps)]

captured_parameters(router, source_key) ==
    LET matches == RouterMatches(router, source_key)
    IN  IF ~matches.ok THEN NoParams
        ELSE [some |-> TRUE, v |-> InsertAll(EmptyMap, matches.caps)]

\* ---------------------------------------------------------------- exclusion
\* EXCLUDE_REGEX is modelled for the regexes of the form ^prefix.* (the form
\* of test_exclude_regex); pattern.v is the prefix.
NoRegex == [some |-> FALSE, v |-> <<>>]

RegexIsMatch(re, key) == StartsWith(key, re)

\* faulty variant: the pattern is never consulted
should_exclude_never(pattern, key) == FALSE

should_exclude(pattern, key) ==
    IF pattern.some THEN RegexIsMatch(pattern.v, key) ELSE FALSE

\* ---------------------------------------------------------------- built-ins
DigitChar(d) == <<"0", "1", "2", "3", "4", "5", "6", "7", "8", "9">>[d + 1]

\* format!("{}", n) of a non-negative integer
RECURSIVE Dec(_)
Dec(n) == IF n < 10 THEN <<DigitChar(n)>> ELSE Dec(n \div 10) \o <<DigitChar(n % 10)>>

RECURSIVE PadZero(_, _)
PadZero(s, w) == IF Len(s) >= w THEN s ELSE PadZero(<<"0">> \o s, w)

\* now.format("%Y-%m-%d")
FormatYmd(now) ==
    PadZero(Dec(now.year), 4) \o <<"-">> \o PadZero(Dec(now.month), 2)
        \o <<"-">> \o PadZero(Dec(now.day), 2)

Unknown == <<"u", "n", "k", "n", "o", "w", "n">>

\* std::env::var("AWS_REGION").unwrap_or("unknown".into())
RegionOr(region) == IF region.some THEN region.v ELSE Unknown

\* HashMap::entry(k).or_insert(v)
InsertIfAbsent(m, k, v) == IF k \in DOMAIN m THEN m ELSE Insert(m, k, v)

\* faulty variant: the built-ins do not replace captures of the same name
add_builtin_parameters_keep(data, now, region) ==
    LET d1 == InsertIfAbsent(data, "year", Dec(now.year))
        d2 == InsertIfAbsent(d1, "month", Dec(now.month))
        d3 == InsertIfAbsent(d2, "day", Dec(now.day))
        d4 == InsertIfAbsent(d3, "ds", FormatYmd(now))
    IN  InsertIfAbsent(d4, "region", RegionOr(region))

add_builtin_parameters(data, now, region) ==
    LET d1 == Insert(data, "year", Dec(now.year))
        d2 == Insert(d1, "month", Dec(now.month))
        d3 == Insert(d2, "day", Dec(now.day))
        d4 == Insert(d3, "ds", FormatYmd(now))
    IN  Insert(d4, "region", RegionOr(region))

\* ----------------------------------------------------------------- template
\* A parsed liquid template: text parts and {{name}} parts.  liquid's render
\* fails with "Unknown variable" when a {{name}} is not among the globals.
Text(s) == [t |-> "Text", s |-> s, name |-> ""]
Var(n) == [t |-> "Var", s |-> <<>>, name |-> n]

RenderError == [ok |-> FALSE, out |-> <<>>]

RECURSIVE TemplateRender(_, _)
TemplateRender(template, parameters) ==
    IF template = <<>> THEN [ok |-> TRUE, out |-> <<>>]
    ELSE LET part == Head(template)
             r == TemplateRender(Tail(template), parameters)
         IN  IF part.t = "Var" /\ part.name \notin DOMAIN parameters THEN RenderError
             ELSE IF ~r.ok THEN RenderError
             ELSE [ok |-> TRUE,
                   out |-> (IF part.t = "Var" THEN parameters[part.name] ELSE part.s)
                               \o r.out]


\* ------------------------------------------------------------------- events
\* A JSON document as the deserializers see it: whether the text is JSON at
\* all, its "Records" array when it has one, and its "Event" and "event"
\* string fields when it has them.  An element of a "Records" array is
\* described by its "body" field (absent, a string holding a document, or a
\* number) and its "s3" field (absent, or a bucket and an object).
NullDoc ==
    [json |-> FALSE, Records |-> [some |-> FALSE, v |-> <<>>],
     Event |-> [some |-> FALSE, v |-> ""], event |-> [some |-> FALSE, v |-> ""]]

NoBody == [t |-> "absent", doc |-> NullDoc]
NumberBody == [t |-> "number", doc |-> NullDoc]
StringBody(doc) == [t |-> "string", doc |-> doc]

NoEntity == [some |-> FALSE, v |-> [bucket |-> NoStr, key |-> NoStr, id |-> <<0, 0>>]]

\* an inline S3 notification record
S3Element(bucket, key) ==
    [body |-> NoBody,
     s3 |-> [some |-> TRUE, v |-> [bucket |-> bucket, key |-> key, id |-> <<0, 0>>]]]
\* an SQS message
MessageElement(body) == [body |-> body, s3 |-> NoEntity]

RecordsDoc(elems) == [NullDoc EXCEPT !.json = TRUE, !.Records = [some |-> TRUE, v |-> elems]]
\* {"Event": value}
UpperMarkerDoc(value) == [NullDoc EXCEPT !.json = TRUE, !.Event = [some |-> TRUE, v |-> value]]
\* {"event": value}
LowerMarkerDoc(value) == [NullDoc EXCEPT !.json = TRUE, !.event = [some |-> TRUE, v |-> value]]
\* {}
EmptyObjectDoc == [NullDoc EXCEPT !.json = TRUE]

\* A deserialization result: the records, or the error with the type whose
\* deserialization raised it and, inside s3_from_sqs, the message it is about.
ParseOk(records) == [ok |-> TRUE, records |-> records, err |-> "", at |-> 0]
ParseError(type, at) == [ok |-> FALSE, records |-> <<>>, err |-> type, at |-> at]

\* serde_json::from_value::<SqsEvent>: "Records" must be an array; every field
\* of SqsMessage is optional and unknown fields are ignored, so an element
\* fails only on a field of the wrong type.
ParseSqsEvent(doc) ==
    IF /\ doc.json
       /\ doc.Records.some
       /\ \A n \in DOMAIN doc.Records.v : doc.Records.v[n].body.t # "number"
    THEN ParseOk([n \in DOMAIN doc.Records.v |->
                    LET b == doc.Records.v[n].body
                    IN  [body |-> [some |-> b.t = "string", v |-> b.doc]]])
    ELSE ParseError("SqsEvent", 0)

\* serde_json::from_str::<S3Event>: "Records" must be an array of records
\* that each have the required "s3" object.
ParseS3Event(doc) ==
    IF /\ doc.json
       /\ doc.Records.some
       /\ \A n \in DOMAIN doc.Records.v : doc.Records.v[n].s3.some
    THEN ParseOk([n \in DOMAIN doc.Records.v |-> doc.Records.v[n].s3.v])
    ELSE ParseError("S3Event", 0)

\* faulty variant: TestEvent without rename_all, the field read from the key "event"
ParseTestEventLower(doc) ==
    IF doc.json /\ doc.event.some
    THEN [ok |-> TRUE, event |-> doc.event.v]
    ELSE [ok |-> FALSE, event |-> ""]

\* serde_json::from_str::<TestEvent>: the field `event` is read from the JSON
\* key "Event" (rename_all = "PascalCase").
ParseTestEvent(doc) ==
    IF doc.json /\ doc.Event.some
    THEN [ok |-> TRUE, event |-> doc.Event.v]
    ELSE [ok |-> FALSE, event |-> ""]

\* The loop of s3_from_sqs from message n on, with the records pushed so far.
RECURSIVE S3FromSqsLoop(_, _, _)
S3FromSqsLoop(messages, n, records) ==
    IF n > Len(messages) THEN ParseOk(records)
    ELSE LET record == messages[n]
             s3event == ParseS3Event(record.body.v)
             test_event == ParseTestEvent(record.body.v)
         IN  IF ~record.body.some
             THEN S3FromSqsLoop(messages, n + 1, records)
             ELSE IF s3event.ok
             THEN S3FromSqsLoop(messages, n + 1, records \o s3event.records)
             ELSE IF ~test_event.ok THEN ParseError(s3event.err, n)
             ELSE IF "s3:TestEvent" # test_event.event THEN ParseError(s3event.err, n)
             ELSE S3FromSqsLoop(messages, n + 1, records)

\* faulty variant: a body that is neither an S3Event nor the test event is skipped
RECURSIVE S3FromSqsSkipLoop(_, _, _)
S3FromSqsSkipLoop(messages, n, records) ==
    IF n > Len(messages) THEN ParseOk(records)
    ELSE LET record == messages[n]
             s3event == ParseS3Event(record.body.v)
         IN  IF record.body.some /\ s3event.ok
             THEN S3FromSqsSkipLoop(messages, n + 1, records \o s3event.records)
             ELSE S3FromSqsSkipLoop(messages, n + 1, records)

s3_from_sqs_skip(event) == S3FromSqsSkipLoop(event.records, 1, <<>>)

s3_from_sqs(event) == S3FromSqsLoop(event.records, 1, <<>>)

\* function_handler's `let records = match ...`
RecordsOf(payload) ==
    LET sqs_event == ParseSqsEvent(payload)
    IN  IF sqs_event.ok THEN s3_from_sqs(sqs_event) ELSE ParseS3Event(payload)

\* faulty variant: no filter on the key
entities_from_all(records) == records

entities_from(records) == SelectSeq(records, LAMBDA r : r.key.some)


\* ------------------------------------------------------------------- inputs
KeyMatch == <<"x", "/", "l", "/", "f">>
KeyExcluded == <<"p", "/", "l", "/", "f">>
KeyEmpty == <<>>
BucketName == <<"b">>

\* the bucket and object of the notification records tried
EntityPool ==
    {[bucket |-> SomeStr(BucketName), key |-> k] :
        k \in {SomeStr(KeyMatch), SomeStr(KeyExcluded), SomeStr(KeyEmpty), NoStr}}
    \cup {[bucket |-> NoStr, key |-> SomeStr(KeyMatch)]}

S3Elements == {S3Element(e.bucket, e.key) : e \in EntityPool}

\* a notification record that also has a "body" that is no string
S3ElementNumberBody == [S3Element(SomeStr(BucketName), SomeStr(KeyMatch)) EXCEPT !.body = NumberBody]

\* bodies that hold no notification record
PlainBodies ==
    {StringBody(NullDoc), StringBody(UpperMarkerDoc("s3:TestEvent")),
     StringBody(LowerMarkerDoc("s3:TestEvent")), StringBody(UpperMarkerDoc("s3:testevent")),
     NoBody}

\* SQS messages that carry exactly k records
MessagesWith(k) ==
    {MessageElement(StringBody(RecordsDoc(es))) : es \in [1..k -> S3Elements]}
    \cup (IF k = 0 THEN {MessageElement(b) : b \in PlainBodies} ELSE {})

\* arrays of at most m SQS messages that carry at most r records: the empty
\* one and those whose first message carries k records, for k up to r
RECURSIVE MessageArrays(_, _), MessageArraysFirst(_, _, _)
MessageArraysFirst(m, r, k) ==
    IF k < 0 THEN {<<>>}
    ELSE {<<e>> \o rest : e \in MessagesWith(k), rest \in MessageArrays(m - 1, r - k)}
            \cup MessageArraysFirst(m, r, k - 1)

MessageArrays(m, r) == IF m = 0 THEN {<<>>} ELSE MessageArraysFirst(m, r, r)

\* arrays of at most r inline notification records
RecordArrays(r) == SeqsUpTo(S3Elements \cup {S3ElementNumberBody}, r)

\* every notification record is given its place in the payload: the element
\* of the top-level array and, in a body, the index in the body's array
LabelBody(body, m) ==
    [body EXCEPT !.doc.Records.v =
        [n \in DOMAIN @ |-> [@[n] EXCEPT !.s3.v.id = <<m, n>>]]]

Label(elems) ==
    [m \in DOMAIN elems |->
        [body |-> LabelBody(elems[m].body, m),
         s3 |-> [elems[m].s3 EXCEPT !.v.id = IF elems[m].s3.some THEN <<m, 0>> ELSE @]]]

\* the "Records" arrays tried: queue-wrapped and direct
PayloadArrays == MessageArrays(MaxMessages, MaxRecords) \cup RecordArrays(MaxRecords)

\* INPUT_PATTERN ":year/l/:filename" and "x/l/f"
PatternCaptures == <<Param("year"), Slash, Exact(<<"l">>), Slash, Param("filename")>>
PatternLiteral == <<Exact(<<"x">>), Slash, Exact(<<"l">>), Slash, Exact(<<"f">>)>>
\* OUTPUT_TEMPLATE "{{year}}/{{filename}}"
TemplateYearFile == <<Var("year"), Text(<<"/">>), Var("filename")>>
\* EXCLUDE_REGEX "^p.*"
RegexP == [some |-> TRUE, v |-> <<"p">>]

\* the environments tried; OUTPUT_BUCKET and AWS_REGION, which no code reads
\* together, are both set or both unset
Environments ==
    {e \in [input_pattern : {PatternCaptures, PatternLiteral},
            output_template : {TemplateYearFile},
            exclude_regex : {NoRegex, RegexP},
            output_bucket : {NoStr, SomeStr(<<"o">>)},
            region : {NoStr, SomeStr(<<"e", "u">>)}] :
        e.output_bucket.some = e.region.some}

\* values of chrono::Utc::now() tried
Dates == {[year |-> 2023, month |-> 9, day |-> 5], [year |-> 2024, month |-> 12, day |-> 31]}

\* -------------------------------------------------------------------- state
VARIABLES
    payload,      \* event.payload
    env,          \* the process environment
    pc,           \* where function_handler is: start, loop, await, done, failed
    error,        \* the error function_handler returned, "" when none
    records,      \* the S3Event of the normalization
    entities,     \* entities_from(records)
    i,            \* index in entities of the entity of the current iteration
    captures,     \* the last Some(params) of captured_parameters
    parameters,   \* the last result of add_builtin_parameters
    now,          \* the clock it read
    rendered,     \* the output keys rendered so far, in order
    requests,     \* the copy requests sent so far, in order
    inflight,     \* the copy requests sent and not answered
    copied        \* the copies S3 has made

vars == <<payload, env, pc, error, records, entities, i, captures, parameters, now,
          rendered, requests, inflight, copied>>

Init ==
    /\ \/ \E es \in PayloadArrays : payload = RecordsDoc(Label(es))
       \/ payload = EmptyObjectDoc
    /\ env \in Environments
    /\ pc = "start"
    /\ error = ""
    /\ records = <<>>
    /\ entities = <<>>
    /\ i = 0
    /\ captures = EmptyMap
    /\ parameters = EmptyMap
    /\ now = [year |-> 0, month |-> 0, day |-> 0]
    /\ rendered = <<>>
    /\ requests = <<>>
    /\ inflight = {}
    /\ copied = <<>>

\* lines 78-83, a payload of neither shape or a malformed body
NormalizeErr ==
    /\ pc = "start"
    /\ ~RecordsOf(payload).ok
    /\ pc' = "failed"
    /\ error' = RecordsOf(payload).err
    /\ UNCHANGED <<payload, env, records, entities, i, captures, parameters, now,
                   rendered, requests, inflight, copied>>

\* lines 78-83
NormalizeOk ==
    /\ pc = "start"
    /\ RecordsOf(payload).ok
    /\ records' = RecordsOf(payload).records
    /\ entities' = entities_from(records')
    /\ i' = 1
    /\ pc' = "loop"
    /\ UNCHANGED <<payload, env, error, captures, parameters, now, rendered, requests,
                   inflight, copied>>

Entity == entities[i]
InLoop == pc = "loop" /\ i <= Len(entities)

\* lines 86-89 (and the entity without a key, which nothing follows)
SkipExcluded ==
    /\ InLoop
    /\ ~Entity.key.some \/ should_exclude(env.exclude_regex, Entity.key.v)
    /\ i' = i + 1
    /\ UNCHANGED <<payload, env, pc, error, records, entities, captures, parameters, now,
                   rendered, requests, inflight, copied>>

Routed ==
    /\ InLoop
    /\ Entity.key.some
    /\ ~should_exclude(env.exclude_regex, Entity.key.v)

\* lines 91-97, None
SkipNoMatch ==
    /\ Routed
    /\ ~captured_parameters(env.input_pattern, Entity.key.v).some
    /\ i' = i + 1
    /\ UNCHANGED <<payload, env, pc, error, records, entities, captures, parameters, now,
                   rendered, requests, inflight, copied>>

Enrich(t) ==
    /\ Routed
    /\ captured_parameters(env.input_pattern, Entity.key.v).some
    /\ captures' = captured_parameters(env.input_pattern, Entity.key.v).v
    /\ now' = t
    /\ parameters' = add_builtin_parameters(captures', t, env.region)

\* line 99, Err
RenderFail ==
    \E t \in Dates :
        /\ Enrich(t)
        /\ ~TemplateRender(env.output_template, parameters').ok
        /\ pc' = "failed"
        /\ error' = "Render"
        /\ UNCHANGED <<payload, env, records, entities, i, rendered, requests, inflight,
                       copied>>

Output == TemplateRender(env.output_template, parameters').out

\* lines 99-101, an entity without a bucket name
SkipNoBucket ==
    \E t \in Dates :
        /\ Enrich(t)
        /\ TemplateRender(env.output_template, parameters').ok
        /\ ~Entity.bucket.some
        /\ rendered' = Append(rendered, [id |-> Entity.id, key |-> Output])
        /\ i' = i + 1
        /\ UNCHANGED <<payload, env, pc, error, records, entities, requests, inflight,
                       copied>>

\* faulty variant: OUTPUT_BUCKET is not read
CopyRequestSameBucket(entity, output_bucket, output_key) ==
    [bucket |-> entity.bucket.v,
     copy_source |-> entity.bucket.v \o <<"/">> \o entity.key.v,
     key |-> output_key,
     id |-> entity.id]

\* the CopyObject request of lines 102-109
CopyRequest(entity, output_bucket, output_key) ==
    [bucket |-> IF output_bucket.some THEN output_bucket.v ELSE entity.bucket.v,
     copy_source |-> entity.bucket.v \o <<"/">> \o entity.key.v,
     key |-> output_key,
     id |-> entity.id]

\* faulty variant: the request is sent by a spawned task and the loop goes on
SendCopySpawned ==
    \E t \in Dates :
        /\ Enrich(t)
        /\ TemplateRender(env.output_template, parameters').ok
        /\ Entity.bucket.some
        /\ rendered' = Append(rendered, [id |-> Entity.id, key |-> Output])
        /\ requests' = Append(requests, CopyRequest(Entity, env.output_bucket, Output))
        /\ inflight' = inflight \cup {CopyRequest(Entity, env.output_bucket, Output)}
        /\ i' = i + 1
        /\ UNCHANGED <<payload, env, pc, error, records, entities, copied>>

\* lines 99-110, up to the await
SendCopy ==
    \E t \in Dates :
        /\ Enrich(t)
        /\ TemplateRender(env.output_template, parameters').ok
        /\ Entity.bucket.some
        /\ rendered' = Append(rendered, [id |-> Entity.id, key |-> Output])
        /\ requests' = Append(requests, CopyRequest(Entity, env.output_bucket, Output))
        /\ inflight' = inflight \cup {CopyRequest(Entity, env.output_bucket, Output)}
        /\ pc' = "await"
        /\ UNCHANGED <<payload, env, error, records, entities, i, copied>>

\* line 110, Ok: S3 made the copy
CopyOk ==
    /\ pc = "await"
    /\ \E r \in inflight :
        /\ inflight' = inflight \ {r}
        /\ copied' = Append(copied, r)
    /\ i' = i + 1
    /\ pc' = "loop"
    /\ UNCHANGED <<payload, env, error, records, entities, captures, parameters, now,
                   rendered, requests>>

\* faulty variant: the error of the copy is logged and the loop goes on
CopyErrIgnored ==
    /\ pc = "await"
    /\ \E r \in inflight : inflight' = inflight \ {r}
    /\ i' = i + 1
    /\ pc' = "loop"
    /\ UNCHANGED <<payload, env, error, records, entities, captures, parameters, now,
                   rendered, requests, copied>>

\* line 110, Err
CopyErr ==
    /\ pc = "await"
    /\ \E r \in inflight : inflight' = inflight \ {r}
    /\ pc' = "failed"
    /\ error' = "Copy"
    /\ UNCHANGED <<payload, env, records, entities, i, captures, parameters, now,
                   rendered, requests, copied>>

\* line 116
Return ==
    /\ pc = "loop"
    /\ i > Len(entities)
    /\ pc' = "done"
    /\ UNCHANGED <<payload, env, error, records, entities, i, captures, parameters, now,
                   rendered, requests, inflight, copied>>

Next ==
    \/ NormalizeErr
    \/ NormalizeOk
    \/ SkipExcluded
    \/ SkipNoMatch
    \/ RenderFail
    \/ SkipNoBucket
    \/ SendCopy
    \/ CopyOk
    \/ CopyErr
    \/ Return

Spec == Init /\ [][Next]_vars


\* ------------------------------------------------------------------ helpers
\* of the properties below
Range(f) == {f[n] : n \in DOMAIN f}

IdLess(a, b) == a[1] < b[1] \/ (a[1] = b[1] /\ a[2] < b[2])

\* ids in payload order, each at most once
Ordered(log) == \A a, b \in DOMAIN log : a < b => IdLess(log[a].id, log[b].id)

Normalized == pc \in {"loop", "await", "done"} \/ (pc = "failed" /\ error \in {"Render", "Copy"})

\* the key cut at every "/"
RECURSIVE Split(_)
Split(key) ==
    LET first == UpToSlash(key)
    IN  IF Len(first) = Len(key) THEN <<first>>
        ELSE <<first>> \o Split(Drop(key, Len(first) + 1))

PatternSegments(route) == SelectSeq(route, LAMBDA seg : seg.t # "Slash")

\* the key has the segment count of the pattern and its literal segments
StructuralMatch(route, key) ==
    LET ks == Split(key)
        ps == PatternSegments(route)
    IN  /\ Len(ks) = Len(ps)
        /\ \A n \in DOMAIN ps : ps[n].t = "Exact" => ks[n] = ps[n].s

ExclusionMatches(key) == env.exclude_regex.some /\ StartsWith(key, env.exclude_regex.v)

\* the payload is one SQS message with this body
SingleBody(doc) ==
    /\ payload.Records.some
    /\ Len(payload.Records.v) = 1
    /\ payload.Records.v[1] = MessageElement(StringBody(doc))

NothingDone == entities = <<>> /\ rendered = <<>> /\ requests = <<>> /\ copied = <<>>

\* a body that holds a direct-shape payload
ValidDirectBody(doc) ==
    /\ doc.json
    /\ doc.Records.some
    /\ \A n \in DOMAIN doc.Records.v : doc.Records.v[n].s3.some

\* a body that is the test event as the code recognizes it
RecognizedMarker(doc) == doc.json /\ doc.Event.some /\ doc.Event.v = "s3:TestEvent"

QueueWrapped ==
    /\ payload.Records.some
    /\ \A n \in DOMAIN payload.Records.v :
        payload.Records.v[n].body.t # "number" /\ ~payload.Records.v[n].s3.some

MalformedAt(n) ==
    /\ payload.Records.v[n].body.t = "string"
    /\ ~ValidDirectBody(payload.Records.v[n].body.doc)
    /\ ~RecognizedMarker(payload.Records.v[n].body.doc)

\* a batch of inline notification records and no "body"
DirectShape ==
    /\ payload.Records.some
    /\ \A n \in DOMAIN payload.Records.v :
        payload.Records.v[n].body.t = "absent" /\ payload.Records.v[n].s3.some

\* ------------------------------------------------------------------- claims

\* C1 (as stated): a queue-wrapped batch whose single body is
\* {"event":"s3:TestEvent"} normalizes to no record, raises no error and
\* sends no copy request.
C1_LowercaseMarkerIgnored ==
    (SingleBody(LowerMarkerDoc("s3:TestEvent")) /\ pc # "start")
        => (pc # "failed" /\ records = <<>> /\ NothingDone)

\* C1 (amended): a queue-wrapped batch whose single body is
\* {"Event":"s3:TestEvent"} normalizes to no record, raises no error and sends
\* no copy request; with the field named "event", or the value in another
\* case, the invocation fails with the error of the S3Event parse.
C1_TestEventIgnored ==
    /\ (SingleBody(UpperMarkerDoc("s3:TestEvent")) /\ pc # "start")
        => (pc \in {"loop", "done"} /\ error = "" /\ records = <<>> /\ NothingDone)
    /\ ((SingleBody(LowerMarkerDoc("s3:TestEvent")) \/ SingleBody(UpperMarkerDoc("s3:testevent")))
            /\ pc # "start")
        => (pc = "failed" /\ error = "S3Event" /\ NothingDone)

C1_Witness == SingleBody(UpperMarkerDoc("s3:TestEvent")) /\ pc = "done"

\* C2: a queue-wrapped batch with a body that is neither a direct-shape
\* payload nor the recognized test event fails the whole invocation with the
\* error of the S3Event parse, and nothing is processed or copied, the records
\* of the well-formed messages before it included.
C2_MalformedBodyAbortsBatch ==
    (QueueWrapped /\ (\E n \in DOMAIN payload.Records.v : MalformedAt(n)) /\ pc # "start")
        => (pc = "failed" /\ error = "S3Event" /\ records = <<>> /\ i = 0 /\ NothingDone)

C2_Witness ==
    /\ QueueWrapped
    /\ Len(payload.Records.v) = 2
    /\ ValidDirectBody(payload.Records.v[1].body.doc)
    /\ Len(payload.Records.v[1].body.doc.Records.v) = 1
    /\ payload.Records.v[1].body.doc.Records.v[1].s3.v.key = SomeStr(KeyMatch)
    /\ MalformedAt(2)
    /\ pc = "failed"

\* C3: a direct-shape payload normalizes to its inline records, one per
\* record and in order.
C3_DirectRecordsKept ==
    (DirectShape /\ pc # "start")
        => /\ Normalized
           /\ Len(records) = Len(payload.Records.v)
           /\ \A n \in DOMAIN records : records[n] = payload.Records.v[n].s3.v


\* what a step that goes on to the next entity and does nothing else leaves
Skips ==
    /\ i' = i + 1
    /\ pc' = "loop"
    /\ error' = error
    /\ UNCHANGED <<captures, parameters, now, rendered, requests, inflight, copied>>

\* C4: an entity whose key the exclusion pattern matches is skipped, whether
\* or not the key matches the input pattern: nothing is routed, rendered or
\* sent and the loop goes on with the next entity.  With no exclusion pattern
\* no key is excluded: an entity whose key matches the input pattern is routed
\* and its key rendered.
C4_ExcludedSkipped ==
    [][/\ (InLoop /\ Entity.key.some /\ ExclusionMatches(Entity.key.v)) => Skips
       /\ (InLoop /\ Entity.key.some /\ ~env.exclude_regex.some
              /\ StructuralMatch(env.input_pattern, Entity.key.v))
            => /\ captures' = captured_parameters(env.input_pattern, Entity.key.v).v
               /\ pc' = "failed" \/ Len(rendered') = Len(rendered) + 1]_vars

\* the first entity matched both patterns and was skipped, the second is copied
C4_Witness ==
    /\ Len(entities) = 2
    /\ ExclusionMatches(entities[1].key.v)
    /\ StructuralMatch(env.input_pattern, entities[1].key.v)
    /\ Len(copied) = 1
    /\ copied[1].id = entities[2].id
    /\ rendered = <<[id |-> entities[2].id, key |-> copied[1].key]>>

Builtins == {"year", "month", "day", "ds", "region"}

\* the built-in values of the dates tried, written out
ExpectedBuiltins(t) ==
    IF t.year = 2023
    THEN [year |-> <<"2", "0", "2", "3">>, month |-> <<"9">>, day |-> <<"5">>,
          ds |-> <<"2", "0", "2", "3", "-", "0", "9", "-", "0", "5">>]
    ELSE [year |-> <<"2", "0", "2", "4">>, month |-> <<"1", "2">>, day |-> <<"3", "1">>,
          ds |-> <<"2", "0", "2", "4", "-", "1", "2", "-", "3", "1">>]

Enriched == now \in Dates

\* C6: the result of add_builtin_parameters has the keys of the captures and
\* year, month, day, ds and region; the five hold the built-in values, also
\* where a capture has the same name, and every other capture is unchanged;
\* for no captures the keys are exactly the five.
C6_BuiltinsOverwrite ==
    Enriched =>
        /\ DOMAIN parameters = (DOMAIN captures) \cup Builtins
        /\ \A k \in {"year", "month", "day", "ds"} : parameters[k] = ExpectedBuiltins(now)[k]
        /\ parameters["region"] = (IF env.region.some THEN env.region.v ELSE Unknown)
        /\ \A k \in (DOMAIN captures) \ Builtins : parameters[k] = captures[k]
        /\ captures = EmptyMap => DOMAIN parameters = Builtins

\* a capture named year was replaced
C6_Witness ==
    /\ Enriched
    /\ "year" \in DOMAIN captures
    /\ captures["year"] = <<"x">>
    /\ parameters["year"] = <<"2", "0", "2", "3">>
    /\ parameters["filename"] = <<"f">>

\* C7: keys are rendered and copy requests sent in the order of the
\* notification records in the payload; at most one request is in flight, it
\* is the last one sent and for the last key rendered, and every request
\* before it has been answered with a copy.
C7_SequentialInOrder ==
    /\ Ordered(rendered)
    /\ Ordered(requests)
    /\ Cardinality(inflight) <= 1
    /\ inflight # {} <=> pc = "await"
    /\ inflight # {} =>
          /\ inflight = {requests[Len(requests)]}
          /\ rendered[Len(rendered)].id = requests[Len(requests)].id
          /\ rendered[Len(rendered)].id = entities[i].id
    /\ \A n \in DOMAIN requests : n < Len(requests) => requests[n] = copied[n]
    /\ Len(copied) <= Len(requests)

\* the records of two messages: the first copied, the second in flight
C7_Witness ==
    /\ Len(requests) = 2
    /\ requests[1].id = <<1, 1>>
    /\ requests[2].id = <<2, 1>>
    /\ copied = <<requests[1]>>
    /\ inflight = {requests[2]}

\* C8: a render failure or a copy failure ends the invocation with an error
\* at once: nothing more is rendered or sent, then or later, and the copies
\* made before stay as they are.
C8_HardFailureAborts ==
    [][/\ (pc = "await" /\ copied' = copied)
            => (pc' = "failed" /\ error' = "Copy" /\ i' = i
                  /\ rendered' = rendered /\ requests' = requests)
       /\ (InLoop /\ Entity.key.some /\ ~ExclusionMatches(Entity.key.v)
              /\ StructuralMatch(env.input_pattern, Entity.key.v)
              /\ ~TemplateRender(env.output_template, parameters').ok)
            => (pc' = "failed" /\ error' = "Render" /\ i' = i /\ copied' = copied
                  /\ rendered' = rendered /\ requests' = requests /\ inflight' = inflight)
       /\ pc = "failed" => UNCHANGED vars]_vars

\* the copy for the second entity failed after the first was copied
C8_Witness ==
    /\ pc = "failed"
    /\ error = "Copy"
    /\ i = 2
    /\ Len(copied) = 1
    /\ copied[1].id = entities[1].id
    /\ Len(requests) = 2

PositionOf(id) == CHOOSE n \in DOMAIN records : records[n].id = id

\* C9 (as stated): no entity with an absent or empty key reaches routing.
C9_NonEmptyKeys ==
    (InLoop /\ ~ExclusionMatches(Entity.key.v)) => (Entity.key.some /\ Entity.key.v # <<>>)

\* C9 (amended): the entities are the records whose key is present, the
\* empty string included, in the order of the records.
C9_PresentKeys ==
    Normalized =>
        /\ \A n \in DOMAIN entities : entities[n].key.some /\ entities[n] \in Range(records)
        /\ \A r \in Range(records) : r.key.some => r \in Range(entities)
        /\ \A a, b \in DOMAIN entities :
              a < b => PositionOf(entities[a].id) < PositionOf(entities[b].id)

\* a record without key was dropped and one with the empty key is routed
C9_Witness ==
    /\ InLoop
    /\ Len(records) = 2
    /\ ~records[1].key.some
    /\ entities = <<records[2]>>
    /\ Entity.key = SomeStr(KeyEmpty)
    /\ ~ExclusionMatches(Entity.key.v)

\* the records a copy request is due for
CopyDue(r) ==
    /\ r.key.some
    /\ ~ExclusionMatches(r.key.v)
    /\ captured_parameters(env.input_pattern, r.key.v).some
    /\ r.bucket.some

RenderedKey(id) == (CHOOSE e \in Range(rendered) : e.id = id).key

\* C10: when the invocation ends without error, a copy request was sent, and
\* the copy made, for exactly the normalized records with a key that the
\* exclusion pattern does not match and the input pattern matches, and with
\* a bucket name; the request copies <bucket>/<key> to the rendered key in
\* OUTPUT_BUCKET when set and in the bucket of the record otherwise.
C10_CopiesExactlyDue ==
    pc = "done" =>
        /\ {q.id : q \in Range(requests)} = {r.id : r \in {x \in Range(records) : CopyDue(x)}}
        /\ copied = requests
        /\ \A q \in Range(requests) :
              LET r == records[PositionOf(q.id)]
              IN  /\ q.copy_source = r.bucket.v \o <<"/">> \o r.key.v
                  /\ q.bucket = (IF env.output_bucket.some THEN env.output_bucket.v ELSE r.bucket.v)
                  /\ q.key = RenderedKey(q.id)

\* one record without bucket name dropped, one copied to the override bucket
C10_Witness ==
    /\ pc = "done"
    /\ env.output_bucket.some
    /\ Len(records) = 2
    /\ records[1].key = SomeStr(KeyMatch)
    /\ ~records[1].bucket.some
    /\ Len(rendered) = 2
    /\ Len(copied) = 1
    /\ copied[1].id = records[2].id
    /\ copied[1].bucket = <<"o">>
    /\ copied[1].copy_source = <<"b", "/", "x", "/", "l", "/", "f">>

=============================================================================
